---- MODULE Spec2Model ----
(***************************************************************************)
(* rsutils: padded file chunks (chunk.go), the shard manager               *)
(* (shard_manager.go), the shard creator and the file level                *)
(* encoder/decoder (file_sharder.go).                                      *)
(*                                                                         *)
(* Bytes are naturals.  A file is a sequence of bytes; the byte at the     *)
(* absolute offset o (counted from 0, as in the Go code) is f[o+1].        *)
(***************************************************************************)
EXTENDS Integers, Sequences, FiniteSets, TLC

\* ------------------------------------------------------------------ bounds
MaxSize == 4        \* longest data file of the chunk specification
MaxChunks == 3      \* largest numChunks given to SplitIntoPaddedChunks
MaxBuf == 2         \* longest caller buffer handed to Read / Write
MaxPosition == 4    \* Read is not called on a chunk whose position reached this cap
MaxSeek == 1        \* Seek offsets range over -MaxSeek..MaxSeek
MaxWrites == 1      \* successful Write calls in one behaviour

\* The value of a buffer cell the callee has not written.
Unset == -1
\* The byte the model's Write calls store.
WriteByte == 9

Min(a, b) == IF a < b THEN a ELSE b

Zeros(n) == [k \in 1..n |-> 0]

\* A caller's fresh buffer: make([]byte, n), its cells marked as not written.
Buffer(n) == [k \in 1..n |-> Unset]

VARIABLES
    data,       \* chunk.go: the resource the chunks share (PaddedFileChunk.data)
    chunks,     \* chunk.go: the []*PaddedFileChunk of SplitIntoPaddedChunks
    ret,        \* the last call on a chunk: its arguments and what it returned
    sequential, \* per chunk: only Reads were made on it, on an unwritten resource
    got,        \* per chunk, while sequential: the bytes its Reads returned
    eof,        \* per chunk, while sequential: a Read has reported io.EOF
    writes,     \* the number of Write calls that succeeded
    inputs      \* per chunk: the bytes a writer of all the chunks has for it

chunkVars == <<data, chunks, ret, got, eof, sequential, writes, inputs>>

VARIABLES
    shards,     \* ShardManager.dataSources: per shard the file's content and
                \* the read/write position of the io.ReadWriteSeeker
    metadata,   \* the *Metadata Encode returned, NoMetadata before
    mret,       \* the last call: its name, what it returned, what it did
    corrupted   \* the number of bytes the environment has overwritten

mgrVars == <<shards, metadata, mret, corrupted>>

VARIABLES
    dfile,      \* FileDecoder.data: the data file's content, position and mtime
    pfiles,     \* FileDecoder.parityFiles: per file content, position and mtime
    dmd,        \* the *Metadata of the file level Encode, NoMetadata before
    dec,        \* the FileDecoder Open returned: dataMTime and parityMTimes
    dret,       \* the last call: its name, what it returned, what it did
    dcorrupted  \* the number of bytes the environment has overwritten

decVars == <<dfile, pfiles, dmd, dec, dret, dcorrupted>>

vars == <<chunkVars, mgrVars, decVars>>

\* The components a specification does not use stay as they start.
ChunkIdle ==
    /\ data = <<>> /\ chunks = <<>> /\ ret = <<>> /\ got = <<>>
    /\ eof = <<>> /\ sequential = <<>> /\ writes = 0 /\ inputs = <<>>

MgrIdle ==
    /\ shards = <<>> /\ metadata = <<>> /\ mret = <<>> /\ corrupted = 0

DecIdle ==
    /\ dfile = <<>> /\ pfiles = <<>> /\ dmd = <<>> /\ dec = <<>>
    /\ dret = <<>> /\ dcorrupted = 0

\* ------------------------------------------------------------- chunk.go
\* A data file of n bytes, every byte different from every other and from 0.
FileOf(n) == [k \in 1..n |-> k]

\* io.ReaderAt.ReadAt(b, off) on a file f, len(b) = len: n bytes read, the
\* error, and the bytes.  io.EOF exactly when fewer than len bytes were there.
ReadAt(f, len, off) ==
    LET avail == IF off >= Len(f) THEN 0 ELSE Len(f) - off
        n == Min(len, avail)
    IN  [n |-> n,
         err |-> IF n < len THEN "EOF" ELSE "nil",
         b |-> [k \in 1..n |-> f[off + k]]]

\* io.WriterAt.WriteAt(b, off) on a file f: the file afterwards.  Writing past
\* the end extends the file, the gap reads as zero bytes.
WriteAt(f, b, off) ==
    LET newLen == IF Len(b) > 0 /\ off + Len(b) > Len(f) THEN off + Len(b) ELSE Len(f)
    IN  [k \in 1..newLen |->
            IF k > off /\ k <= off + Len(b) THEN b[k - off]
            ELSE IF k <= Len(f) THEN f[k] ELSE 0]

\* size / numChunks, plus one when size % numChunks # 0
ChunkSize(size, numChunks) ==
    (size \div numChunks) + (IF size % numChunks # 0 THEN 1 ELSE 0)

\* A partition that adds one to the chunk size whether or not numChunks
\* divides size.
SplitIntoPaddedChunks_AlwaysUp(size, numChunks) ==
    LET chunkSize == (size \div numChunks) + 1
    IN  [i \in 1..numChunks |->
            [offset |-> (i - 1) * chunkSize,
             limit |-> i * chunkSize,
             position |-> 0]]

\* A partition that forgets to round the chunk size up.
SplitIntoPaddedChunks_Floor(size, numChunks) ==
    LET chunkSize == size \div numChunks
    IN  [i \in 1..numChunks |->
            [offset |-> (i - 1) * chunkSize,
             limit |-> i * chunkSize,
             position |-> 0]]

SplitIntoPaddedChunks(size, numChunks) ==
    LET chunkSize == ChunkSize(size, numChunks)
    IN  [i \in 1..numChunks |->
            [offset |-> (i - 1) * chunkSize,
             limit |-> i * chunkSize,
             position |-> 0]]

\* PaddedFileChunk.Read(p) on the chunk c of the file f: the returned n and
\* err, the caller's buffer p after the call, and the chunk's new position.
PaddedFileChunk_Read(f, c, p) ==
    IF c.position = c.limit - c.offset
    THEN [n |-> 0, err |-> "EOF", p |-> p, position |-> c.position]
    ELSE
    LET bytesLeft == c.limit - c.offset + c.position
        bufShrunk == Len(p) > bytesLeft
        readBuffer == IF bufShrunk THEN Zeros(bytesLeft) ELSE p
        pBufLen == IF bufShrunk THEN bytesLeft ELSE Len(p)
        r == ReadAt(f, Len(readBuffer), c.offset + c.position)
        filled == [k \in 1..Len(readBuffer) |->
                     IF k <= r.n THEN r.b[k]
                     ELSE IF r.err = "EOF" /\ k <= pBufLen THEN 0
                     ELSE readBuffer[k]]
        n == IF r.err = "EOF" THEN pBufLen ELSE r.n
    IN  [n |-> n,
         err |-> r.err,
         p |-> IF bufShrunk
               THEN [k \in 1..Len(p) |-> IF k <= Len(filled) THEN filled[k] ELSE p[k]]
               ELSE filled,
         position |-> c.position + n]

\* A Write that fills the chunk up to its boundary before it fails.
PaddedFileChunk_Write_Partial(f, c, p) ==
    LET lp == Len(p)
        bytesLeft == c.limit - c.offset - c.position
        fit == IF bytesLeft > 0 THEN bytesLeft ELSE 0
    IN  IF lp > bytesLeft
        THEN [n |-> fit, err |-> "bounds",
              data |-> WriteAt(f, SubSeq(p, 1, fit), c.offset + c.position),
              position |-> c.position + fit]
        ELSE [n |-> lp, err |-> "nil",
              data |-> WriteAt(f, p, c.offset + c.position),
              position |-> c.position + lp]

\* A Write that stores its buffer at the chunk's offset, whatever the
\* position.
PaddedFileChunk_Write_AtStart(f, c, p) ==
    LET lp == Len(p)
        bytesLeft == c.limit - c.offset - c.position
    IN  IF lp > bytesLeft
        THEN [n |-> 0, err |-> "bounds", data |-> f, position |-> c.position]
        ELSE [n |-> lp, err |-> "nil",
              data |-> WriteAt(f, p, c.offset),
              position |-> c.position + lp]

\* PaddedFileChunk.Write(p): n, err, the file afterwards, the new position.
PaddedFileChunk_Write(f, c, p) ==
    LET lp == Len(p)
        bytesLeft == c.limit - c.offset - c.position
    IN  IF lp > bytesLeft
        THEN [n |-> 0, err |-> "bounds", data |-> f, position |-> c.position]
        ELSE [n |-> lp, err |-> "nil",
              data |-> WriteAt(f, p, c.offset + c.position),
              position |-> c.position + lp]

\* A Seek that falls back to the start of the chunk when it fails.
PaddedFileChunk_Seek_Resetting(c, offset, whence) ==
    IF whence \notin {0, 1, 2}
    THEN [pos |-> c.offset, err |-> "whence", position |-> 0]
    ELSE
    LET position == CASE whence = 0 -> offset
                      [] whence = 1 -> c.position + offset
                      [] whence = 2 -> c.limit + offset
    IN  IF c.offset + position > c.limit \/ c.offset + position < c.offset
        THEN [pos |-> c.offset, err |-> "bounds", position |-> 0]
        ELSE [pos |-> position, err |-> "nil", position |-> position]

\* whence: io.SeekStart = 0, io.SeekCurrent = 1, io.SeekEnd = 2
\* PaddedFileChunk.Seek(offset, whence): the returned position and error and
\* the chunk's new position.
PaddedFileChunk_Seek(c, offset, whence) ==
    IF whence \notin {0, 1, 2}
    THEN [pos |-> c.offset, err |-> "whence", position |-> c.position]
    ELSE
    LET position == CASE whence = 0 -> offset
                      [] whence = 1 -> c.position + offset
                      [] whence = 2 -> c.limit + offset
    IN  IF c.offset + position > c.limit
        THEN [pos |-> c.offset, err |-> "bounds", position |-> c.position]
        ELSE IF c.offset + position < c.offset
        THEN [pos |-> c.offset, err |-> "bounds", position |-> c.position]
        ELSE [pos |-> position, err |-> "nil", position |-> position]

NoRet == [op |-> "none", chunk |-> 0, len |-> 0, pos0 |-> 0, n |-> 0,
          err |-> "nil", p |-> <<>>]

ChunkInit ==
    /\ data \in {FileOf(n) : n \in 1..MaxSize}
    /\ chunks = <<>>
    /\ ret = NoRet
    /\ got = <<>>
    /\ eof = <<>>
    /\ sequential = <<>>
    /\ writes = 0
    /\ inputs = <<>>
    /\ MgrIdle /\ DecIdle

\* SplitIntoPaddedChunks(src, size, numChunks) with size the file's size, as
\* Encode and the tests call it.
Split(numChunks) ==
    /\ chunks = <<>>
    /\ chunks' = SplitIntoPaddedChunks(Len(data), numChunks)
    /\ ret' = [NoRet EXCEPT !.op = "Split", !.len = numChunks, !.n = Len(data)]
    /\ got' = [i \in 1..numChunks |-> <<>>]
    /\ eof' = [i \in 1..numChunks |-> FALSE]
    /\ sequential' = [i \in 1..numChunks |-> TRUE]
    /\ UNCHANGED <<data, writes, inputs, mgrVars, decVars>>

\* chunks[i].Read(make([]byte, len))
ChunkRead(i, len) ==
    /\ i \in DOMAIN chunks
    /\ chunks[i].position < MaxPosition
    /\ LET r == PaddedFileChunk_Read(data, chunks[i], Buffer(len))
       IN  /\ chunks' = [chunks EXCEPT ![i].position = r.position]
           /\ ret' = [op |-> "Read", chunk |-> i, len |-> len,
                      pos0 |-> chunks[i].position, n |-> r.n, err |-> r.err,
                      p |-> r.p]
           /\ got' = [got EXCEPT ![i] =
                        IF sequential[i] /\ ~eof[i]
                        THEN @ \o SubSeq(r.p, 1, r.n) ELSE @]
           /\ eof' = [eof EXCEPT ![i] = @ \/ (sequential[i] /\ r.err = "EOF")]
    /\ UNCHANGED <<data, sequential, writes, inputs, mgrVars, decVars>>

\* chunks[i].Write(p) with p made of len bytes WriteByte
ChunkWrite(i, len) ==
    /\ i \in DOMAIN chunks
    /\ writes < MaxWrites
    /\ LET p == [k \in 1..len |-> WriteByte]
           r == PaddedFileChunk_Write(data, chunks[i], p)
       IN  /\ data' = r.data
           /\ chunks' = [chunks EXCEPT ![i].position = r.position]
           /\ ret' = [op |-> "Write", chunk |-> i, len |-> len,
                      pos0 |-> chunks[i].position, n |-> r.n, err |-> r.err,
                      p |-> p]
           /\ sequential' = IF r.err = "nil"
                            THEN [j \in DOMAIN chunks |-> FALSE]
                            ELSE sequential
           /\ got' = IF r.err = "nil"
                     THEN [j \in DOMAIN chunks |-> <<>>] ELSE got
           /\ eof' = IF r.err = "nil"
                     THEN [j \in DOMAIN chunks |-> FALSE] ELSE eof
           /\ writes' = IF r.err = "nil" THEN writes + 1 ELSE writes
    /\ UNCHANGED <<inputs, mgrVars, decVars>>

\* chunks[i].Seek(offset, whence)
ChunkSeek(i, offset, whence) ==
    /\ i \in DOMAIN chunks
    /\ LET r == PaddedFileChunk_Seek(chunks[i], offset, whence)
       IN  /\ chunks' = [chunks EXCEPT ![i].position = r.position]
           /\ ret' = [op |-> "Seek", chunk |-> i, len |-> whence,
                      pos0 |-> chunks[i].position, n |-> r.pos, err |-> r.err,
                      p |-> <<offset>>]
           /\ sequential' = [sequential EXCEPT ![i] = @ /\ r.err # "nil"]
           /\ got' = [got EXCEPT ![i] = IF r.err = "nil" THEN <<>> ELSE @]
           /\ eof' = [eof EXCEPT ![i] = @ /\ r.err # "nil"]
    /\ UNCHANGED <<data, writes, inputs, mgrVars, decVars>>

\* Reading only: the partition of a file and the Reads of its chunks.
ChunkNext ==
    \/ \E numChunks \in 1..MaxChunks : Split(numChunks)
    \/ \E i \in 1..MaxChunks, len \in 1..MaxBuf : ChunkRead(i, len)

SpecChunk == ChunkInit /\ [][ChunkNext]_vars

\* The chunk a Read, Write or Seek recorded in ret was called on.
RetChunk == chunks[ret.chunk]

\* The length limit-offset of a chunk.
ChunkLen(c) == c.limit - c.offset

\* The bytes of the range [offset, limit) of the file f: the file's own bytes
\* below its length, zero bytes from there on.
PaddedRange(f, c) ==
    [k \in 1..ChunkLen(c) |->
        IF c.offset + k <= Len(f) THEN f[c.offset + k] ELSE 0]

\* ceil(size / numChunks), stated without the division of the code.
CeilDiv(size, numChunks) ==
    CHOOSE c \in 0..size : c * numChunks >= size /\ (c - 1) * numChunks < size

RECURSIVE SumLen(_, _)
SumLen(cs, n) == IF n = 0 THEN 0 ELSE ChunkLen(cs[n]) + SumLen(cs, n - 1)

\* C1: a single Read(buffer) of a chunk yields at most
\* min(len(buffer), (limit-offset)-position) bytes, and every byte it yields
\* is the byte of the chunk's own range [offset, limit) at that place (the
\* file's byte, or zero padding past the file's end), also after earlier
\* partial Reads of the same chunk.
C1_ReadStaysInChunk ==
    ret.op = "Read" =>
        /\ ret.n <= Min(ret.len, ChunkLen(RetChunk) - ret.pos0)
        /\ \A k \in 1..ret.n :
              /\ RetChunk.offset + ret.pos0 + k <= RetChunk.limit
              /\ ret.p[k] = PaddedRange(data, RetChunk)[ret.pos0 + k]

\* C2: reading a chunk from position 0 by repeated Reads with non-empty
\* buffers until io.EOF yields exactly limit-offset bytes: the file's bytes of
\* the range, then zero bytes for the part of the range past the file's end.
C2_SequentialReadIsPaddedRange ==
    \A i \in DOMAIN chunks :
        (sequential[i] /\ eof[i]) => got[i] = PaddedRange(data, chunks[i])

\* C3: for a size S > 0 and N > 0 chunks, SplitIntoPaddedChunks returns
\* exactly N chunks, chunk i (from 0) covering [i*c, (i+1)*c) with
\* c = ceil(S/N) and position 0; the lengths sum to N*c and the ranges tile
\* [0, N*c) without gap or overlap.
C3_SplitTiles ==
    ret.op = "Split" =>
        LET S == ret.n
            N == ret.len
            c == CeilDiv(S, N)
        IN  /\ Len(chunks) = N
            /\ \A i \in 1..N :
                  chunks[i] = [offset |-> (i - 1) * c, limit |-> i * c,
                               position |-> 0]
            /\ SumLen(chunks, N) = N * c
            /\ chunks[1].offset = 0
            /\ chunks[N].limit = N * c
            /\ \A i \in 1..(N - 1) : chunks[i].limit = chunks[i + 1].offset

\* C3 witness: a 4 byte file split into 3 chunks (ceil(4/3) = 2 > 4/3).
C3_Witness ==
    ret.op = "Split" /\ ret.n = 4 /\ ret.len = 3 /\ chunks[3].limit = 6

\* ====================================================================
\* shard_manager.go, ShardCreator (shard_creator.go) and the erasure coder
\* ====================================================================
MaxShards == 4         \* largest Metadata.DataShards + Metadata.ParityShards
MaxShardLen == 2       \* longest shard
MaxCorrupt == 3        \* bytes the environment overwrites in one behaviour

\* The erasure coder works on bytes of a prime field; byte values are 0..Field-1.
Field == 7

NoMetadata == [Size |-> 0, Hashes |-> <<>>, DataShards |-> 0, ParityShards |-> 0]

\* fmt.Sprintf("%x", sha256.Sum(bytes)): a digest, different for different bytes.
Hash(bytes) == <<"sha256", bytes>>

\* io.Copy(dst, src): the bytes src yields from its position to its end.
ReadAll(s) == SubSeq(s.content, s.pos + 1, Len(s.content))

\* ---- reedsolomon.NewStream(dataShards, parityShards): a systematic MDS
\* code, parity row j over the data bytes with Cauchy coefficients.
Inv == [a \in 1..(Field - 1) |-> CHOOSE b \in 1..(Field - 1) : (a * b) % Field = 1]

Coef(j, i, M) == Inv[(j + Field - (M + i)) % Field]

RECURSIVE ParitySum(_, _, _, _)
ParitySum(d, j, i, M) ==
    IF i = 0 THEN 0 ELSE (Coef(j, i, M) * d[i] + ParitySum(d, j, i - 1, M)) % Field

\* The bytes of all D+M shards at one byte index, given the D data bytes d.
Codeword(d, D, M) ==
    [s \in 1..(D + M) |-> IF s <= D THEN d[s] ELSE ParitySum(d, s - D, D, M)]

\* The first n members of the set of shard indices V.
RECURSIVE FirstOf(_, _)
FirstOf(V, n) ==
    IF n = 0 \/ V = {} THEN {}
    ELSE LET m == CHOOSE x \in V : \A y \in V : x <= y
         IN  {m} \cup FirstOf(V \ {m}, n - 1)

\* The data bytes at one byte index that agree with the bytes col[s] of the
\* shards s in use (D valid shards determine them): the data shards in use
\* give their bytes, the parity shards in use fix the missing data bytes.
Solve(col, use, D, M) ==
    LET missing == (1..D) \ use
        x == CHOOSE y \in [missing -> 0..(Field - 1)] :
                \A s \in use \ (1..D) :
                    ParitySum([i \in 1..D |-> IF i \in missing THEN y[i] ELSE col[i]],
                              s - D, D, M) = col[s]
    IN  [i \in 1..D |-> IF i \in missing THEN x[i] ELSE col[i]]

\* StreamEncoder.Encode(data readers, parity writers): the parity shards'
\* bytes for data shards read as the byte sequences in (all of one length).
RSEncode(in, D, M) ==
    [j \in 1..M |->
        [k \in 1..Len(in[1]) |->
            Codeword([i \in 1..D |-> in[i][k]], D, M)[D + j]]]

\* StreamEncoder.Reconstruct(valid, fill): valid is the set of shards given
\* as readers, in their bytes read; the result holds every shard's bytes.
RSReconstruct(in, valid, D, M) ==
    LET use == FirstOf(valid, D)
        len == Len(in[CHOOSE s \in valid : TRUE])
        cols == [k \in 1..len |->
                    Codeword(Solve([t \in 1..(D + M) |-> IF t \in use THEN in[t][k] ELSE 0],
                                   use, D, M), D, M)]
    IN  [s \in 1..(D + M) |-> [k \in 1..len |-> cols[k][s]]]

SameLength(in, idx) == \A a, b \in idx : Len(in[a]) = Len(in[b])

\* An Encode whose coder cuts every source to the length of the shortest one
\* and does not fail.
ShardCreator_Encode_Truncating(sh, size, D, M) ==
    LET in == [i \in 1..D |-> ReadAll(sh[i])]
        n == CHOOSE x \in {Len(in[i]) : i \in 1..D} : \A i \in 1..D : x <= Len(in[i])
        cut == [i \in 1..D |-> SubSeq(in[i], 1, n)]
        parity == RSEncode(cut, D, M)
    IN  [err |-> "nil",
         metadata |-> [Size |-> size,
                       Hashes |-> [i \in 1..(D + M) |->
                                     IF i <= D THEN Hash(in[i]) ELSE Hash(parity[i - D])],
                       DataShards |-> D,
                       ParityShards |-> M],
         shards |-> [i \in 1..(D + M) |->
                        IF i <= D THEN [sh[i] EXCEPT !.pos = Len(sh[i].content)]
                        ELSE [content |-> WriteAt(sh[i].content, parity[i - D], sh[i].pos),
                              pos |-> sh[i].pos + Len(parity[i - D])]]]

\* ---- ShardCreator.Encode(parityDst): the data sources are shards 1..D, the
\* parity destinations shards D+1..D+M.  Returns the error, the metadata and
\* the shards afterwards.
ShardCreator_Encode(sh, size, D, M) ==
    LET in == [i \in 1..D |-> ReadAll(sh[i])]
    IN  IF ~SameLength(in, 1..D)
        THEN [err |-> "Error encoding", metadata |-> NoMetadata,
              shards |-> [i \in 1..(D + M) |->
                             IF i <= D THEN [sh[i] EXCEPT !.pos = Len(sh[i].content)]
                             ELSE sh[i]]]
        ELSE
        LET parity == RSEncode(in, D, M)
        IN  [err |-> "nil",
             metadata |-> [Size |-> size,
                           Hashes |-> [i \in 1..(D + M) |->
                                         IF i <= D THEN Hash(in[i])
                                         ELSE Hash(parity[i - D])],
                           DataShards |-> D,
                           ParityShards |-> M],
             shards |-> [i \in 1..(D + M) |->
                            IF i <= D THEN [sh[i] EXCEPT !.pos = Len(sh[i].content)]
                            ELSE [content |-> WriteAt(sh[i].content, parity[i - D], sh[i].pos),
                                  pos |-> sh[i].pos + Len(parity[i - D])]]]

\* ---- ShardManager.findCorruptShards: the loop over len(Hashes), from i on;
\* the indices it appends are Go's (from 0).
RECURSIVE BrokenShards(_, _, _)
BrokenShards(sh, md, i) ==
    IF i > Len(md.Hashes) THEN <<>>
    ELSE (IF Hash(ReadAll(sh[i])) # md.Hashes[i] THEN <<i - 1>> ELSE <<>>)
         \o BrokenShards(sh, md, i + 1)

\* Hashing without the deferred Seek: every shard is left at its end.
Rewound_Skipped(sh) == [i \in DOMAIN sh |-> [sh[i] EXCEPT !.pos = Len(sh[i].content)]]

\* The deferred Seek(0, 0) of every shard hashed, run when the function returns.
Rewound(sh) == [i \in DOMAIN sh |-> [sh[i] EXCEPT !.pos = 0]]

findCorruptShards(sh, md) ==
    [brokenShards |-> BrokenShards(sh, md, 1), shards |-> Rewound(sh)]

\* The set of the members of a sequence.
Range(q) == {q[k] : k \in DOMAIN q}

\* ---- ShardManager.CheckHealth
ShardManager_CheckHealth(sh, md) ==
    LET f == findCorruptShards(sh, md)
    IN  [err |-> IF Len(f.brokenShards) > 0 THEN "Corrupted shards" ELSE "nil",
         broken |-> f.brokenShards,
         shards |-> f.shards]

\* ---- ShardManager.Read(dataDst): io.Copy of every data source in turn.
RECURSIVE CopyShards(_, _)
CopyShards(sh, i) ==
    IF i > Len(sh) THEN <<>> ELSE ReadAll(sh[i]) \o CopyShards(sh, i + 1)

ShardManager_Read(sh, md) ==
    [err |-> "nil",
     out |-> CopyShards(sh, 1),
     shards |-> [i \in DOMAIN sh |-> [sh[i] EXCEPT !.pos = Len(sh[i].content)]]]

\* A Repair that does not compare the corrupt count with the parity count.
ShardManager_Repair_NoParityCheck(sh, md) ==
    LET f == findCorruptShards(sh, md)
        fill == {b + 1 : b \in Range(f.brokenShards)}
        valid == (1..Len(sh)) \ fill
        in == [i \in 1..Len(sh) |-> ReadAll(f.shards[i])]
    IN  IF Len(f.brokenShards) = 0
        THEN [err |-> "nil", broken |-> f.brokenShards, counts |-> <<>>,
              reconstruct |-> FALSE, shards |-> f.shards]
        ELSE IF Cardinality(valid) < md.DataShards \/ ~SameLength(in, valid)
        THEN [err |-> "Error reconstructing data", broken |-> f.brokenShards,
              counts |-> <<>>, reconstruct |-> TRUE, shards |-> f.shards]
        ELSE
        LET rec == RSReconstruct(in, valid, md.DataShards, md.ParityShards)
        IN  [err |-> "nil", broken |-> f.brokenShards, counts |-> <<>>,
             reconstruct |-> TRUE,
             shards |-> [i \in 1..Len(sh) |->
                           IF i \in fill
                           THEN [content |-> WriteAt(f.shards[i].content, rec[i], 0),
                                 pos |-> Len(rec[i])]
                           ELSE [f.shards[i] EXCEPT !.pos = Len(f.shards[i].content)]]]

\* ---- ShardManager.Repair
ShardManager_Repair(sh, md) ==
    LET f == findCorruptShards(sh, md)
        brokenShardIndexes == f.brokenShards
        bsCount == Len(brokenShardIndexes)
        shardCount == md.DataShards + md.ParityShards
        \* shardWriters[i] # nil, shardReaders[i] = nil
        fill == {b + 1 : b \in Range(brokenShardIndexes)}
        valid == (1..shardCount) \ fill
        in == [i \in 1..shardCount |-> ReadAll(f.shards[i])]
    IN  IF bsCount = 0
        THEN [err |-> "nil", broken |-> brokenShardIndexes, counts |-> <<>>,
              reconstruct |-> FALSE, shards |-> f.shards]
        ELSE IF bsCount > md.ParityShards
        THEN [err |-> "Cannot repair data", broken |-> brokenShardIndexes,
              counts |-> <<bsCount, md.ParityShards>>,
              reconstruct |-> FALSE, shards |-> f.shards]
        ELSE IF Cardinality(valid) < md.DataShards \/ ~SameLength(in, valid)
        THEN \* Reconstruct returns ErrTooFewShards / ErrShardSize
             [err |-> "Error reconstructing data", broken |-> brokenShardIndexes,
              counts |-> <<>>, reconstruct |-> TRUE, shards |-> f.shards]
        ELSE
        LET rec == RSReconstruct(in, valid, md.DataShards, md.ParityShards)
        IN  [err |-> "nil", broken |-> brokenShardIndexes, counts |-> <<>>,
             reconstruct |-> TRUE,
             shards |-> [i \in 1..shardCount |->
                           IF i \in fill
                           THEN [content |-> WriteAt(f.shards[i].content, rec[i],
                                                     f.shards[i].pos),
                                 pos |-> f.shards[i].pos + Len(rec[i])]
                           ELSE [f.shards[i] EXCEPT !.pos = Len(f.shards[i].content)]]]

\* ---- the state machine of a set of shards and its manager
\* The shards (Go indices) whose full content does not hash to Metadata.Hashes.
CorruptSet(sh, md) ==
    {i - 1 : i \in {j \in 1..Len(md.Hashes) : Hash(sh[j].content) # md.Hashes[j]}}

Contents(sh) == [i \in DOMAIN sh |-> sh[i].content]

MgrRet(op, err, broken, counts, reconstruct, out, before, after) ==
    [op |-> op, err |-> err, broken |-> broken, counts |-> counts,
     reconstruct |-> reconstruct, out |-> out,
     changed |-> Contents(before) # Contents(after),
     corrupt0 |-> Cardinality(CorruptSet(before, metadata)),
     pos0 |-> [i \in DOMAIN before |-> before[i].pos]]

\* Data source i of n bytes.
SourceOf(i, n) == [k \in 1..n |-> (2 * i + k) % Field]

\* D data sources, open at their start, and M empty parity files.
MgrStart ==
    /\ \E D \in 1..(MaxShards - 1), M \in 1..(MaxShards - 1) :
       \E lens \in [1..D -> 1..MaxShardLen] :
          /\ D + M <= MaxShards
          /\ shards = [i \in 1..(D + M) |->
                      [content |-> IF i <= D THEN SourceOf(i, lens[i]) ELSE <<>>,
                       pos |-> 0]]
    /\ metadata = NoMetadata
    /\ mret = [op |-> "none"]
    /\ corrupted = 0

MgrInit == MgrStart /\ ChunkIdle /\ DecIdle

\* NewShardCreator(sources, size, D, M).Encode(parity destinations)
Encode(D, M) ==
    /\ mret.op = "none"
    /\ D \in 1..Len(shards)
    /\ M = Len(shards) - D
    /\ shards[D].content # <<>>
    /\ shards[D + 1].content = <<>>
    /\ LET size == Len(CopyShards(shards, 1))
           r == ShardCreator_Encode(shards, size, D, M)
       IN  /\ shards' = r.shards
           /\ metadata' = r.metadata
           /\ mret' = [MgrRet("Encode", r.err, <<>>, <<D, M, size>>, FALSE, <<>>,
                               shards, r.shards)
                         EXCEPT !.corrupt0 = 0]
    /\ UNCHANGED <<corrupted, chunkVars, decVars>>

\* The caller's shard.Seek(0, io.SeekStart) on every shard.
RewindAll ==
    /\ metadata # NoMetadata
    /\ shards' = Rewound(shards)
    /\ mret' = MgrRet("Rewind", "nil", <<>>, <<>>, FALSE, <<>>, shards, shards')
    /\ UNCHANGED <<metadata, corrupted, chunkVars, decVars>>

\* corruptShard(shard, size): Seek to index k of an intact shard i (its first
\* or its last byte), Write one byte that differs from the one there, Seek
\* back to 0.
Corrupt(i, k) ==
    /\ metadata # NoMetadata
    /\ corrupted < MaxCorrupt
    /\ i \in DOMAIN shards
    /\ k \in {1, Len(shards[i].content)}
    /\ Hash(shards[i].content) = metadata.Hashes[i]
    /\ shards' = [shards EXCEPT ![i].content[k] = (@ + 1) % Field, ![i].pos = 0]
    /\ mret' = MgrRet("Corrupt", "nil", <<i - 1>>, <<>>, FALSE, <<>>, shards, shards')
    /\ corrupted' = corrupted + 1
    /\ UNCHANGED <<metadata, chunkVars, decVars>>

CheckHealth ==
    /\ metadata # NoMetadata
    /\ LET r == ShardManager_CheckHealth(shards, metadata)
       IN  /\ shards' = r.shards
           /\ mret' = MgrRet("CheckHealth", r.err, r.broken, <<>>, FALSE, <<>>,
                             shards, r.shards)
    /\ UNCHANGED <<metadata, corrupted, chunkVars, decVars>>

Repair ==
    /\ metadata # NoMetadata
    /\ LET r == ShardManager_Repair(shards, metadata)
       IN  /\ shards' = r.shards
           /\ mret' = MgrRet("Repair", r.err, r.broken, r.counts, r.reconstruct,
                             <<>>, shards, r.shards)
    /\ UNCHANGED <<metadata, corrupted, chunkVars, decVars>>

MgrRead ==
    /\ metadata # NoMetadata
    /\ LET r == ShardManager_Read(shards, metadata)
       IN  /\ shards' = r.shards
           /\ mret' = MgrRet("Read", r.err, <<>>, <<>>, FALSE, r.out, shards, r.shards)
    /\ UNCHANGED <<metadata, corrupted, chunkVars, decVars>>

MgrNext ==
    \/ \E D \in 1..(MaxShards - 1), M \in 1..(MaxShards - 1) : Encode(D, M)
    \/ RewindAll
    \/ \E i \in 1..MaxShards, k \in 1..MaxShardLen : Corrupt(i, k)
    \/ CheckHealth
    \/ Repair
    \/ MgrRead

SpecManager == MgrInit /\ [][MgrNext]_vars

\* A list of shard indices is strictly ascending.
Ascending(q) == \A a, b \in DOMAIN q : a < b => q[a] < q[b]

\* C4: ShardCreator.Encode immediately followed by CheckHealth on the same
\* data sources and parity outputs, with the Metadata Encode returned, reports
\* no corrupt shard.
C4_EncodeThenCheckHealth ==
    [][(mret.op = "Encode" /\ mret.err = "nil" /\ mret'.op = "CheckHealth")
          => mret'.err = "nil"]_vars

\* C5: CheckHealth returns no error exactly when every shard's full content
\* hashes to Metadata.Hashes at its index; otherwise its error lists exactly
\* the mismatching shard indices, all of them, in ascending order.
C5_CheckHealthReportsCorruptSet ==
    mret.op = "CheckHealth" =>
        /\ (mret.err = "nil") <=> (CorruptSet(shards, metadata) = {})
        /\ Range(mret.broken) = CorruptSet(shards, metadata)
        /\ Ascending(mret.broken)

\* C6: Repair succeeds whenever at most Metadata.ParityShards shards are
\* corrupt, and a CheckHealth run on the same shards after a successful Repair
\* reports no corrupt shard.
C6_RepairThenHealthy ==
    [][/\ (mret'.op = "Repair" /\ mret'.corrupt0 <= metadata.ParityShards)
            => mret'.err = "nil"
       /\ (mret.op = "Repair" /\ mret.err = "nil" /\ mret'.op = "CheckHealth")
            => mret'.err = "nil"]_vars

\* C7: when more shards are corrupt than Metadata.ParityShards, Repair fails
\* with the insufficient parity error, which carries the number of shards
\* found corrupt and the parity count; Reconstruct is not invoked and no byte
\* of any shard changes.
C7_RepairInsufficientParity ==
    (mret.op = "Repair" /\ mret.corrupt0 > metadata.ParityShards) =>
        /\ mret.err = "Cannot repair data"
        /\ mret.counts = <<Len(mret.broken), metadata.ParityShards>>
        /\ Len(mret.broken) >= mret.corrupt0
        /\ ~mret.reconstruct
        /\ ~mret.changed

\* C7 witness: two data shards and one parity shard, both data shards
\* corrupt, and Repair has refused.
C7_Witness ==
    /\ mret.op = "Repair"
    /\ metadata.DataShards = 2 /\ metadata.ParityShards = 1
    /\ mret.corrupt0 = 2
    /\ mret.err = "Cannot repair data"
    /\ mret.counts = <<2, 1>>

\* C8: two consecutive CheckHealth calls with nothing in between report the
\* same result, whatever was called before them.
C8_CheckHealthIdempotent ==
    [][(mret.op = "CheckHealth" /\ mret'.op = "CheckHealth")
          => (mret'.err = mret.err /\ mret'.broken = mret.broken)]_vars


\* ====================================================================
\* file_sharder.go: Encode, Open, FileDecoder
\* ====================================================================
MaxFileSize == 3       \* largest data file
MaxDecShards == 3      \* largest dataShards + parity files of the file level Encode
MaxDecCorrupt == 2     \* bytes another writer overwrites in one behaviour
MaxMTime == 3          \* latest modification time a file reaches

\* The length of io.Copy's buffer (32 KiB), scaled to the shard lengths here.
CopyBufLen == 2
\* The block of the stream coder (4 MiB): longer than every shard here.
StreamBlockLen == 16

\* time.Time{}; every file's modification time is later.
ZeroTime == 0

NoDecoder == [open |-> FALSE, dataMTime |-> ZeroTime, parityMTimes |-> <<>>]

\* The members of a set of numbers, ascending.
RECURSIVE Sorted(_)
Sorted(S) ==
    IF S = {} THEN <<>>
    ELSE LET m == CHOOSE x \in S : \A y \in S : x <= y
         IN  <<m>> \o Sorted(S \ {m})

\* io.Copy(hasher, chunk): Read into a buffer of CopyBufLen bytes until Read
\* returns an error; the bytes of every Read are written, those that came
\* with io.EOF too.
RECURSIVE CopyChunk(_, _)
CopyChunk(f, c) ==
    LET r == PaddedFileChunk_Read(f, c, Zeros(CopyBufLen))
        b == SubSeq(r.p, 1, r.n)
    IN  IF r.err # "nil" \/ r.n = 0 THEN b
        ELSE b \o CopyChunk(f, [c EXCEPT !.position = r.position])

\* io.ReadFull(chunk, block) of the stream coder's readShards, len(block) =
\* len: Read into the rest of the block until it is full or Read returns an
\* error.
RECURSIVE ReadFull(_, _, _)
ReadFull(f, c, len) ==
    IF len = 0 THEN <<>>
    ELSE LET r == PaddedFileChunk_Read(f, c, Zeros(len))
             b == SubSeq(r.p, 1, r.n)
         IN  IF r.err # "nil" \/ r.n = 0 THEN b
             ELSE b \o ReadFull(f, [c EXCEPT !.position = r.position], len - r.n)

\* os.File.Write(b) at the file's position; the modification time moves on.
FileWrite(file, b) ==
    [content |-> WriteAt(file.content, b, file.pos),
     pos |-> file.pos + Len(b),
     mtime |-> file.mtime + 1]

\* An Encode that hashes the file's bytes of every chunk without the padding.
Encode_File_UnpaddedHash(file, D, pf) ==
    LET M == Len(pf)
        fsize == Len(file.content)
        paddedChunks == SplitIntoPaddedChunks(fsize, D)
        in == [i \in 1..D |-> ReadFull(file.content, paddedChunks[i], StreamBlockLen)]
        parity == RSEncode(in, D, M)
    IN  [err |-> "nil",
         metadata |-> [Size |-> fsize,
                       Hashes |-> [i \in 1..(D + M) |->
                                     IF i <= D
                                     THEN Hash(ReadAt(file.content, Len(in[i]),
                                                      paddedChunks[i].offset).b)
                                     ELSE Hash(parity[i - D])],
                       DataShards |-> D,
                       ParityShards |-> M],
         pfiles |-> [j \in 1..M |-> FileWrite(pf[j], parity[j])]]

\* ---- Encode(f, dataShards, parityWriters): pf are the parity writers.
Encode_File(file, D, pf) ==
    LET M == Len(pf)
        fsize == Len(file.content)
        paddedChunks == SplitIntoPaddedChunks(fsize, D)
        in == [i \in 1..D |-> ReadFull(file.content, paddedChunks[i], StreamBlockLen)]
    IN  IF ~SameLength(in, 1..D)
        THEN [err |-> "ErrShardSize", metadata |-> NoMetadata, pfiles |-> pf]
        ELSE
        LET parity == RSEncode(in, D, M)
        IN  [err |-> "nil",
             metadata |-> [Size |-> fsize,
                           Hashes |-> [i \in 1..(D + M) |->
                                         IF i <= D THEN Hash(in[i])
                                         ELSE Hash(parity[i - D])],
                           DataShards |-> D,
                           ParityShards |-> M],
             pfiles |-> [j \in 1..M |-> FileWrite(pf[j], parity[j])]]

\* An Open that takes any number of parity files.
Open_NoCountCheck(n, md) ==
    [err |-> "nil",
     dec |-> [open |-> TRUE, dataMTime |-> ZeroTime,
              parityMTimes |-> [j \in 1..md.ParityShards |-> ZeroTime]]]

\* ---- Open(data, parityFiles, md) with n parity files
Open(n, md) ==
    IF n # md.ParityShards
    THEN [err |-> "Cannot open encoded files", dec |-> NoDecoder]
    ELSE [err |-> "nil",
          dec |-> [open |-> TRUE, dataMTime |-> ZeroTime,
                   parityMTimes |-> [j \in 1..md.ParityShards |-> ZeroTime]]]

\* A checkDataShardHealth that hashes the data shards on every call.
checkDataShardHealth_Always(d, file, md) ==
    LET chunks_ == SplitIntoPaddedChunks(md.Size, md.DataShards)
        bad == {i \in 1..md.DataShards :
                   Hash(CopyChunk(file.content, chunks_[i])) # md.Hashes[i]}
    IN  [corruptShards |-> Sorted({i - 1 : i \in bad}),
         checked |-> TRUE,
         dec |-> [d EXCEPT !.dataMTime = file.mtime]]

\* ---- FileDecoder.checkDataShardHealth: the corrupt data shards found (Go
\* indices, ascending), whether the shards were hashed, the decoder after.
checkDataShardHealth(d, file, md) ==
    LET dataMTime == file.mtime
        checkDataShards == dataMTime # d.dataMTime
        chunks_ == SplitIntoPaddedChunks(md.Size, md.DataShards)
        bad == {i \in 1..md.DataShards :
                   Hash(CopyChunk(file.content, chunks_[i])) # md.Hashes[i]}
    IN  [corruptShards |-> IF checkDataShards THEN Sorted({i - 1 : i \in bad}) ELSE <<>>,
         checked |-> checkDataShards,
         dec |-> [d EXCEPT !.dataMTime = dataMTime]]

\* ---- FileDecoder.checkParityShardsHealth: the corrupt parity shards found,
\* whether the parity files were hashed, the decoder and the files after.
checkParityShardsHealth(d, pf, md) ==
    LET modifiedParityShards == {j \in 1..Len(pf) : pf[j].mtime # d.parityMTimes[j]}
        hashed == modifiedParityShards # {}
        bad == {j \in 1..Len(pf) : Hash(ReadAll(pf[j])) # md.Hashes[md.DataShards + j]}
    IN  [corruptShards |-> IF hashed
                           THEN Sorted({md.DataShards + j - 1 : j \in bad})
                           ELSE <<>>,
         checked |-> hashed,
         dec |-> [d EXCEPT !.parityMTimes = [j \in 1..Len(pf) |-> pf[j].mtime]],
         pfiles |-> IF hashed THEN [j \in 1..Len(pf) |-> [pf[j] EXCEPT !.pos = 0]]
                    ELSE pf]

\* ---- FileDecoder.checkShardHealth: cd is what checkDataShardHealth
\* returned, cp what checkParityShardsHealth returned after it.
HealthOf(cd, cp) ==
    [corruptShards |-> cd.corruptShards \o cp.corruptShards,
     checkedData |-> cd.checked,
     checkedParity |-> cp.checked,
     dec |-> cp.dec,
     pfiles |-> cp.pfiles]

checkParityAfter(cd, pf, md) == HealthOf(cd, checkParityShardsHealth(cd.dec, pf, md))

checkShardHealth(d, file, pf, md) ==
    checkParityAfter(checkDataShardHealth(d, file, md), pf, md)

\* The data file after the chunks of the shards in fill were written with the
\* reconstructed bytes, in index order from shard i on.
RECURSIVE WriteChunks(_, _, _, _, _)
WriteChunks(f, cs, rec, fill, i) ==
    IF i > Len(cs) THEN f
    ELSE IF i \in fill
    THEN WriteChunks(PaddedFileChunk_Write(f, cs[i], rec[i]).data, cs, rec, fill, i + 1)
    ELSE WriteChunks(f, cs, rec, fill, i + 1)

\* attemptRepair's shardReaders: the bytes every reader yields to the stream
\* coder, none for the readers set to nil (the shards in fill).  The chunks
\* are new, at position 0; the parity files are read from where they are.
ShardReaders(fill, file, pf, md) ==
    [s \in 1..(md.DataShards + md.ParityShards) |->
        IF s \in fill THEN <<>>
        ELSE IF s <= md.DataShards
        THEN ReadFull(file.content,
                      SplitIntoPaddedChunks(md.Size, md.DataShards)[s], StreamBlockLen)
        ELSE ReadAll(pf[s - md.DataShards])]

\* The parity files after the stream coder read the valid shards up to
\* shard last.
ReadParity(pf, valid, last, md) ==
    [j \in 1..Len(pf) |->
        IF (md.DataShards + j) \in valid /\ md.DataShards + j <= last
        THEN [pf[j] EXCEPT !.pos = Len(pf[j].content)]
        ELSE pf[j]]

\* A writeShards that has a writer for every parity file, corrupt or not.
writeShards_EveryParity(rec, fill, file, pf, md) ==
    [err |-> "nil", reconstruct |-> TRUE,
     dfile |-> IF fill \cap (1..md.DataShards) = {} THEN file
               ELSE [file EXCEPT
                       !.content = WriteChunks(file.content,
                                       SplitIntoPaddedChunks(md.Size, md.DataShards),
                                       rec, fill, 1),
                       !.mtime = @ + 1],
     pfiles |-> [j \in 1..Len(pf) |-> FileWrite(pf[j], rec[md.DataShards + j])]]

\* The stream coder's writeShards: the reconstructed bytes rec go to the
\* writers of the shards in fill, chunks of the data file and parity files.
writeShards(rec, fill, file, pf, md) ==
    [err |-> "nil", reconstruct |-> TRUE,
     dfile |-> IF fill \cap (1..md.DataShards) = {} THEN file
               ELSE [file EXCEPT
                       !.content = WriteChunks(file.content,
                                       SplitIntoPaddedChunks(md.Size, md.DataShards),
                                       rec, fill, 1),
                       !.mtime = @ + 1],
     pfiles |-> [j \in 1..Len(pf) |->
                   IF (md.DataShards + j) \in fill
                   THEN FileWrite(pf[j], rec[md.DataShards + j])
                   ELSE pf[j]]]

\* encoder.Reconstruct(shardReaders, shardWriters): in holds the bytes of the
\* readers.  readShards stops with ErrShardSize at the first reader whose
\* length differs from the first one's, and with ErrShardNoData when there is
\* nothing to read.
Reconstruct(in, fill, file, pf, md) ==
    LET D == md.DataShards
        M == md.ParityShards
        valid == (1..(D + M)) \ fill
        size == Len(in[CHOOSE s \in valid : \A t \in valid : s <= t])
        stop == {s \in valid : Len(in[s]) # size}
        last == IF stop = {} THEN D + M ELSE CHOOSE s \in stop : \A t \in stop : s <= t
    IN  IF stop # {} \/ size = 0
        THEN [err |-> "Error reconstructing data", reconstruct |-> TRUE,
              dfile |-> file, pfiles |-> ReadParity(pf, valid, last, md)]
        ELSE writeShards(RSReconstruct(in, valid, D, M), fill, file,
                         ReadParity(pf, valid, D + M, md), md)

\* ---- FileDecoder.attemptRepair(corruptShards): the error and the files
\* afterwards.
attemptRepair(corruptShards, file, pf, md) ==
    IF Len(corruptShards) > Len(pf)
    THEN [err |-> "Cannot repair data", reconstruct |-> FALSE,
          dfile |-> file, pfiles |-> pf]
    ELSE Reconstruct(ShardReaders({c + 1 : c \in Range(corruptShards)}, file, pf, md),
                     {c + 1 : c \in Range(corruptShards)}, file, pf, md)

\* os.File.Read(p) at the file's position: n, err, the buffer and the file after.
FileRead(file, p) ==
    LET avail == IF file.pos >= Len(file.content) THEN 0 ELSE Len(file.content) - file.pos
        n == Min(Len(p), avail)
    IN  [n |-> n,
         err |-> IF n = 0 /\ Len(p) > 0 THEN "EOF" ELSE "nil",
         p |-> [k \in 1..Len(p) |-> IF k <= n THEN file.content[file.pos + k] ELSE p[k]],
         file |-> [file EXCEPT !.pos = @ + n]]

\* What a FileDecoder.Read call returned and did: h is the health check's
\* result, r what f.data.Read(p) returned, pf the parity files afterwards.
Served(h, repair, r, pf) ==
    [n |-> r.n, err |-> r.err, p |-> r.p, corruptShards |-> h.corruptShards,
     checkedData |-> h.checkedData, checkedParity |-> h.checkedParity,
     repair |-> repair, dec |-> h.dec, dfile |-> r.file, pfiles |-> pf]

Refused(h, a, p) ==
    [n |-> 0, err |-> a.err, p |-> p, corruptShards |-> h.corruptShards,
     checkedData |-> h.checkedData, checkedParity |-> h.checkedParity,
     repair |-> "failed", dec |-> h.dec, dfile |-> a.dfile, pfiles |-> a.pfiles]

\* A Read that takes the files' new modification times into the cache after
\* a repair.
ReadRepaired_Refreshing(h, a, p) ==
    IF a.err # "nil" THEN Refused(h, a, p)
    ELSE Served([h EXCEPT !.dec = [@ EXCEPT
                     !.dataMTime = a.dfile.mtime,
                     !.parityMTimes = [j \in 1..Len(a.pfiles) |-> a.pfiles[j].mtime]]],
                "done", FileRead(a.dfile, p), a.pfiles)

\* FileDecoder.Read after attemptRepair returned a.
ReadRepaired(h, a, p) ==
    IF a.err # "nil" THEN Refused(h, a, p)
    ELSE Served(h, "done", FileRead(a.dfile, p), a.pfiles)

\* FileDecoder.Read after checkShardHealth returned h.
ReadChecked(h, file, md, p) ==
    IF Len(h.corruptShards) # 0
    THEN ReadRepaired(h, attemptRepair(h.corruptShards, file, h.pfiles, md), p)
    ELSE Served(h, "none", FileRead(file, p), h.pfiles)

\* A Read that serves the data although the repair failed.
ReadRepaired_IgnoreError(h, a, p) ==
    Served(h, IF a.err # "nil" THEN "failed" ELSE "done", FileRead(a.dfile, p), a.pfiles)

ReadChecked_IgnoreError(h, file, md, p) ==
    IF Len(h.corruptShards) # 0
    THEN ReadRepaired_IgnoreError(h, attemptRepair(h.corruptShards, file, h.pfiles, md), p)
    ELSE Served(h, "none", FileRead(file, p), h.pfiles)

FileDecoder_Read_IgnoreRepairError(d, file, pf, md, p) ==
    ReadChecked_IgnoreError(checkShardHealth(d, file, pf, md), file, md, p)

\* ---- FileDecoder.Read(p)
FileDecoder_Read(d, file, pf, md, p) ==
    ReadChecked(checkShardHealth(d, file, pf, md), file, md, p)

\* The encoded data file: its chunks' bytes hash to the metadata's hashes.
DataIntact(file, md) ==
    \A i \in 1..md.DataShards :
        Hash(ReadFull(file.content, SplitIntoPaddedChunks(md.Size, md.DataShards)[i],
                      StreamBlockLen)) = md.Hashes[i]

NoDecRet == [op |-> "none"]

\* A data file of 1..MaxFileSize bytes, open at its start; not encoded yet.
DecStart ==
    /\ \E n \in 1..MaxFileSize : dfile = [content |-> FileOf(n), pos |-> 0, mtime |-> 1]
    /\ pfiles = <<>>
    /\ dmd = NoMetadata
    /\ dec = NoDecoder
    /\ dret = NoDecRet
    /\ dcorrupted = 0

DecInit == DecStart /\ ChunkIdle /\ MgrIdle

\* Encode(f, D, parity writers) with M new, empty parity files.
DecEncode(D, M) ==
    /\ dmd = NoMetadata
    /\ D + M <= MaxDecShards
    /\ LET r == Encode_File(dfile, D, [j \in 1..M |-> [content |-> <<>>, pos |-> 0, mtime |-> 1]])
       IN  /\ pfiles' = r.pfiles
           /\ dmd' = r.metadata
           /\ dret' = [op |-> "Encode", err |-> r.err, D |-> D, M |-> M,
                       size |-> Len(dfile.content)]
    /\ UNCHANGED <<dfile, dec, dcorrupted, chunkVars, mgrVars>>

\* The caller's Seek(0, os.SEEK_SET) on the data file and the parity files
\* between Encode and Open.
DecRewind ==
    /\ dmd # NoMetadata
    /\ ~dec.open
    /\ dfile' = [dfile EXCEPT !.pos = 0]
    /\ pfiles' = [j \in 1..Len(pfiles) |-> [pfiles[j] EXCEPT !.pos = 0]]
    /\ dret' = [op |-> "Rewind"]
    /\ UNCHANGED <<dmd, dec, dcorrupted, chunkVars, mgrVars>>

\* Open(data, n parity files, md): the first n of the parity files, or all
\* of them and one of them once more
DecOpen(n) ==
    /\ dmd # NoMetadata
    /\ ~dec.open
    /\ n \in 0..(Len(pfiles) + 1)
    /\ LET r == Open(n, dmd)
       IN  /\ dec' = r.dec
           /\ dret' = [op |-> "Open", err |-> r.err, n |-> n]
    /\ UNCHANGED <<dfile, pfiles, dmd, dcorrupted, chunkVars, mgrVars>>

\* Another writer changes byte k (the first or the last) of the data file
\* (j = 0) or of parity file j; the file's modification time moves on.
DecCorrupt(j, k) ==
    /\ dmd # NoMetadata
    /\ dcorrupted < MaxDecCorrupt
    /\ j \in 0..Len(pfiles)
    /\ LET file == IF j = 0 THEN dfile ELSE pfiles[j]
           after == [file EXCEPT !.content[k] = (@ + 1) % Field, !.mtime = @ + 1]
       IN  /\ k \in {1, Len(file.content)}
           /\ file.mtime < MaxMTime
           /\ dfile' = IF j = 0 THEN after ELSE dfile
           /\ pfiles' = IF j = 0 THEN pfiles ELSE [pfiles EXCEPT ![j] = after]
    /\ dcorrupted' = dcorrupted + 1
    /\ dret' = [op |-> "Corrupt", file |-> j]
    /\ UNCHANGED <<dmd, dec, chunkVars, mgrVars>>

\* decoder.Read(make([]byte, len))
DecRead(len) ==
    /\ dec.open
    /\ \E r \in {FileDecoder_Read(dec, dfile, pfiles, dmd, Buffer(len))} :
           /\ r.dfile.mtime <= MaxMTime
           /\ \A j \in 1..Len(pfiles) : r.pfiles[j].mtime <= MaxMTime
           /\ dec' = r.dec
           /\ dfile' = r.dfile
           /\ pfiles' = r.pfiles
           /\ dret' = [op |-> "Read", len |-> len, n |-> r.n, err |-> r.err, p |-> r.p,
                       corruptShards |-> r.corruptShards, repair |-> r.repair,
                       checkedData |-> r.checkedData, checkedParity |-> r.checkedParity,
                       pos0 |-> dfile.pos]
    /\ UNCHANGED <<dmd, dcorrupted, chunkVars, mgrVars>>

DecNext ==
    \/ \E D \in 1..(MaxDecShards - 1), M \in 1..(MaxDecShards - 1) : DecEncode(D, M)
    \/ DecRewind
    \/ \E n \in 0..MaxDecShards : DecOpen(n)
    \/ \E j \in 0..MaxDecShards, k \in 1..(MaxFileSize + 1) : DecCorrupt(j, k)
    \/ \E len \in 1..MaxBuf : DecRead(len)

SpecDecoder == DecInit /\ [][DecNext]_vars

\* C9: a FileDecoder.Read whose health check found corruption and whose
\* repair failed returns 0 bytes and an error, leaves the caller's buffer as
\* it was and does not advance the data file: it serves no byte.
C9_FailedRepairServesNothing ==
    (dret.op = "Read" /\ dret.repair = "failed") =>
        /\ dret.n = 0
        /\ dret.err \notin {"nil", "EOF"}
        /\ dret.p = Buffer(dret.len)
        /\ dfile.pos = dret.pos0

\* C9 witness: more shards were found corrupt than there are parity files,
\* after another writer changed two files, and the Read was refused.
C9_Witness ==
    /\ dret.op = "Read"
    /\ dret.repair = "failed"
    /\ dcorrupted = 2
    /\ Len(dret.corruptShards) > dmd.ParityShards
    /\ dret.err = "Cannot repair data"
    /\ dret.n = 0

\* C10: once a Read has failed because the corruption found could not be
\* repaired, the next Read, with nothing modified in between, fails too and
\* serves no byte.
C10_FailedReadStaysFailed ==
    [][(dret.op = "Read" /\ dret.repair = "failed" /\ dret'.op = "Read")
          => (dret'.n = 0 /\ dret'.err \notin {"nil", "EOF"})]_vars

\* The bytes the data file held when it was encoded.
Original == FileOf(dmd.Size)

\* C11: a FileDecoder.Read that succeeds, on data that is not corrupt or
\* after it repaired the corrupt shards, serves the bytes of the original
\* data at the place the Reads before it stopped, and none beyond them.
C11_ReadServesOriginal ==
    (/\ dret.op = "Read"
     /\ dret.err = "nil"
     /\ (dret.repair = "done" \/ DataIntact(dfile, dmd))) =>
        /\ dret.pos0 + dret.n <= dmd.Size
        /\ SubSeq(dret.p, 1, dret.n)
             = SubSeq(Original, dret.pos0 + 1, dret.pos0 + dret.n)

\* The contents of the shards 1..n, one after the other.
RECURSIVE Concat(_, _)
Concat(sh, n) == IF n = 0 THEN <<>> ELSE Concat(sh, n - 1) \o sh[n].content

\* C12: ShardManager.Read, called with every shard at its start (as after
\* CheckHealth), writes the contents of the data shards in index order and no
\* byte of a parity shard: Metadata.Size bytes for shards of equal length.
C12_ReadWritesDataShardsOnly ==
    (mret.op = "Read" /\ \A i \in DOMAIN mret.pos0 : mret.pos0[i] = 0) =>
        /\ mret.out = Concat(shards, metadata.DataShards)
        /\ SameLength(Contents(shards), DOMAIN shards) => Len(mret.out) = metadata.Size


\* ====================================================================
\* The two Encode functions side by side
\* ====================================================================
EncInit == MgrStart /\ DecStart /\ ChunkIdle

EncNext ==
    \/ \E D \in 1..(MaxShards - 1), M \in 1..(MaxShards - 1) : Encode(D, M)
    \/ \E D \in 1..(MaxDecShards - 1), M \in 1..(MaxDecShards - 1) : DecEncode(D, M)

SpecEncode == EncInit /\ [][EncNext]_vars

\* C13: a successful Encode returns Metadata whose Size is the size the
\* caller gave (the file's size for the file level Encode), whose DataShards
\* and ParityShards are the configured counts and whose Hashes hold, for every
\* data source, the hash of the bytes read from it and, for every parity
\* destination, the hash of the bytes written to it.
C13_EncodeMetadata ==
    /\ (mret.op = "Encode" /\ mret.err = "nil") =>
          LET D == mret.counts[1]
              M == mret.counts[2]
          IN  /\ metadata.Size = mret.counts[3]
              /\ metadata.DataShards = D /\ metadata.ParityShards = M
              /\ Len(metadata.Hashes) = D + M
              /\ \A i \in 1..(D + M) : metadata.Hashes[i] = Hash(shards[i].content)
    /\ (dret.op = "Encode" /\ dret.err = "nil") =>
          LET D == dret.D
              M == dret.M
              cs == [i \in 1..D |->
                       [offset |-> (i - 1) * CeilDiv(dret.size, D),
                        limit |-> i * CeilDiv(dret.size, D)]]
          IN  /\ dmd.Size = Len(dfile.content)
              /\ dmd.DataShards = D /\ dmd.ParityShards = M
              /\ Len(dmd.Hashes) = D + M
              /\ \A i \in 1..D : dmd.Hashes[i] = Hash(PaddedRange(dfile.content, cs[i]))
              /\ \A j \in 1..M : dmd.Hashes[D + j] = Hash(pfiles[j].content)

\* C13 witness: both Encodes succeeded, the file level one on 3 bytes in 2
\* data shards (the second one padded), the other on 2 sources of 2 bytes.
C13_Witness ==
    /\ mret.op = "Encode" /\ mret.err = "nil"
    /\ mret.counts = <<2, 1, 4>>
    /\ dret.op = "Encode" /\ dret.err = "nil"
    /\ dret.D = 2 /\ dret.size = 3
    /\ Len(pfiles) = 1 /\ Len(pfiles[1].content) = 2

\* C14: Encode fails with an encoding error and returns no Metadata when the
\* coder fails, as it does for data sources of unequal length.
C14_EncodeFailsOnUnequalSources ==
    (/\ mret.op = "Encode"
     /\ \E a, b \in 1..mret.counts[1] : Len(shards[a].content) # Len(shards[b].content)) =>
        /\ mret.err = "Error encoding"
        /\ metadata = NoMetadata

\* C14 witness: two sources of 1 and 2 bytes, Encode refused.
C14_Witness ==
    /\ mret.op = "Encode"
    /\ mret.counts[1] = 2
    /\ Len(shards[1].content) = 1 /\ Len(shards[2].content) = 2
    /\ mret.err = "Error encoding"
    /\ metadata = NoMetadata


\* ====================================================================
\* chunk.go: Read, Write and Seek on the chunks of one file
\* ====================================================================
MaxWinSize == 3        \* largest file
MaxWinChunks == 2      \* most chunks

WinInit ==
    /\ data \in {FileOf(n) : n \in 1..MaxWinSize}
    /\ chunks = <<>>
    /\ ret = NoRet
    /\ got = <<>>
    /\ eof = <<>>
    /\ sequential = <<>>
    /\ writes = 0
    /\ inputs = <<>>
    /\ MgrIdle /\ DecIdle

\* whence 3 is none of io.SeekStart, io.SeekCurrent, io.SeekEnd
WinNext ==
    \/ \E numChunks \in 1..MaxWinChunks : Split(numChunks)
    \/ \E i \in 1..MaxWinChunks, len \in 1..MaxBuf : ChunkRead(i, len)
    \/ \E i \in 1..MaxWinChunks, len \in 1..MaxBuf : ChunkWrite(i, len)
    \/ \E i \in 1..MaxWinChunks, offset \in (-MaxSeek)..MaxSeek, whence \in 0..3 :
          ChunkSeek(i, offset, whence)

SpecWindow == WinInit /\ [][WinNext]_vars

\* Seeks only: every position of a window is reached by seeking.
SeekNext ==
    \/ \E numChunks \in 1..MaxWinChunks : Split(numChunks)
    \/ \E i \in 1..MaxWinChunks, offset \in (-MaxSeek)..MaxSeek, whence \in 0..3 :
          ChunkSeek(i, offset, whence)

SpecSeek == WinInit /\ [][SeekNext]_vars

\* Reads and Writes only.
WriteNext ==
    \/ \E numChunks \in 1..MaxWinChunks : Split(numChunks)
    \/ \E i \in 1..MaxWinChunks, len \in 1..MaxBuf : ChunkRead(i, len)
    \/ \E i \in 1..MaxWinChunks, len \in 1..MaxBuf : ChunkWrite(i, len)

SpecWrite == WinInit /\ [][WriteNext]_vars

\* C15: a Write(buffer) with len(buffer) greater than the remaining capacity
\* limit-start-position of its window fails, returns 0 bytes written, writes
\* no byte to the file (no partial write up to the boundary) and leaves every
\* position unchanged, for every window and every position.
C15_WriteBeyondCapacityFails ==
    [][(/\ ret'.op = "Write"
        /\ ret'.len > ChunkLen(chunks[ret'.chunk]) - chunks[ret'.chunk].position) =>
            /\ ret'.err = "bounds"
            /\ ret'.n = 0
            /\ data' = data
            /\ chunks' = chunks]_vars

\* A Write of two bytes refused at position 1 of a two-byte window that does
\* not start at the beginning of the file.
C15_Witness ==
    /\ ret.op = "Write" /\ ret.err = "bounds" /\ ret.n = 0
    /\ ret.len = 2 /\ ret.pos0 = 1
    /\ RetChunk.offset > 0 /\ ChunkLen(RetChunk) = 2 /\ RetChunk.position = 1


\* The position a Seek(offset, whence) aims at in the coordinates of the
\* window c, from the position pos0.
SeekTarget(c, pos0, offset, whence) ==
    CASE whence = 0 -> offset
      [] whence = 1 -> pos0 + offset
      [] whence = 2 -> ChunkLen(c) + offset

\* C16: for every window, also those whose start is greater than 0,
\* Seek(offset, whence) takes the offset in the window's own coordinates: the
\* target is offset for Start, position+offset for Current and
\* (limit-start)+offset for End; the call succeeds and sets position to the
\* target exactly when 0 <= target <= limit-start; any other whence fails.
C16_SeekInWindowCoordinates ==
    ret.op = "Seek" =>
        IF ret.len \notin {0, 1, 2}
        THEN ret.err # "nil"
        ELSE LET target == SeekTarget(RetChunk, ret.pos0, ret.p[1], ret.len)
             IN  /\ ret.err = "nil" <=> (0 <= target /\ target <= ChunkLen(RetChunk))
                 /\ ret.err = "nil" => (RetChunk.position = target /\ ret.n = target)

\* C17: a Seek that fails, because its target lies outside [0, limit-start]
\* or because its whence is unsupported, leaves the position of its window
\* (and of every other window, and the file) as it was, so the next Read or
\* Write continues from where it would have without the Seek.
C17_FailedSeekKeepsPosition ==
    [][(ret'.op = "Seek" /\ ret'.err # "nil") =>
            /\ chunks' = chunks
            /\ data' = data
            /\ \A len \in 1..MaxBuf :
                  PaddedFileChunk_Read(data', chunks'[ret'.chunk], Buffer(len))
                      = PaddedFileChunk_Read(data, chunks[ret'.chunk], Buffer(len))]_vars

\* Seek(1, io.SeekCurrent) refused at position 1 of a one-byte window that
\* does not start at the beginning of the file.
C17_Witness ==
    /\ ret.op = "Seek" /\ ret.err = "bounds"
    /\ ret.len = 1 /\ ret.p = <<1>>
    /\ ret.pos0 = 1 /\ RetChunk.position = 1
    /\ RetChunk.offset > 0 /\ ChunkLen(RetChunk) = 1

\* C18: after any CheckHealth call, whether it reports success or corrupt
\* shards, every shard's read position is back at its start, so a following
\* ShardManager.Read delivers the full contents of the shards it copies.
C18_CheckHealthRewinds ==
    mret.op = "CheckHealth" =>
        /\ \A i \in DOMAIN shards :
              shards[i].pos = 0 /\ ReadAll(shards[i]) = shards[i].content
        /\ LET out == ShardManager_Read(shards, metadata).out
               full == Concat(shards, metadata.DataShards)
           IN  SubSeq(out, 1, Len(full)) = full

\* A CheckHealth over three or more shards that reports corrupt shards,
\* called when one of the shards had been read to its end.
C18_Witness ==
    /\ mret.op = "CheckHealth"
    /\ mret.err = "Corrupted shards"
    /\ \E i \in DOMAIN mret.pos0 : mret.pos0[i] > 0 /\ mret.pos0[i] = Len(shards[i].content)
    /\ Len(shards) >= 3

\* Byte k (counted from 1) of the file f, zero past its end.
PaddedByte(f, k) == IF k <= Len(f) THEN f[k] ELSE 0

\* C19: windows over the same file with disjoint ranges do not interfere:
\* a Read, Write or Seek on window j changes no other window's position and
\* nothing of what a Read of another window delivers, and a Write through
\* window j changes no byte of the file outside [start_j, limit_j).
C19_WindowsDoNotInterfere ==
    [][ret'.op \in {"Read", "Write", "Seek"} =>
         LET j == ret'.chunk
         IN  /\ \A i \in DOMAIN chunks \ {j} :
                   /\ chunks'[i] = chunks[i]
                   /\ \A len \in 1..MaxBuf :
                         PaddedFileChunk_Read(data', chunks'[i], Buffer(len))
                             = PaddedFileChunk_Read(data, chunks[i], Buffer(len))
             /\ \A k \in 1..(Len(data) + Len(data')) :
                   (k <= chunks[j].offset \/ k > chunks[j].limit) =>
                       PaddedByte(data', k) = PaddedByte(data, k)]_vars

\* C20: Open fails and returns no decoder when the number of parity files
\* differs from Metadata.ParityShards; otherwise it returns a decoder whose
\* modification-time cache is empty: the zero time for the data file and for
\* each of the Metadata.ParityShards parity files.
C20_OpenChecksParityCount ==
    dret.op = "Open" =>
        IF dret.n # dmd.ParityShards
        THEN dret.err = "Cannot open encoded files" /\ dec = NoDecoder
        ELSE /\ dret.err = "nil"
             /\ dec.open
             /\ dec.dataMTime = ZeroTime
             /\ Len(dec.parityMTimes) = dmd.ParityShards
             /\ \A j \in 1..dmd.ParityShards : dec.parityMTimes[j] = ZeroTime

\* Open refused with one parity file where the metadata names two.
C20_Witness ==
    /\ dret.op = "Open" /\ dret.n = 1 /\ dmd.ParityShards = 2
    /\ dret.err = "Cannot open encoded files" /\ dec = NoDecoder

\* C21: after any sequence of Read, Write and Seek calls, successful or
\* failing, every window has 0 <= start <= limit and
\* 0 <= position <= limit-start, and a Read has advanced the position by
\* exactly the number of bytes it reported, zero fill included.
C21_PositionInvariant ==
    /\ \A i \in DOMAIN chunks :
          /\ 0 <= chunks[i].offset /\ chunks[i].offset <= chunks[i].limit
          /\ 0 <= chunks[i].position
          /\ chunks[i].position <= ChunkLen(chunks[i])
    /\ ret.op = "Read" => RetChunk.position = ret.pos0 + ret.n

\* C22: a Read reports end-of-stream only once the window's own boundary is
\* reached: whenever a Read returns io.EOF the position equals limit-start
\* after the call, also when the file ends before the window does and the
\* buffer is smaller than the padded length that remains.
C22_EOFOnlyAtBoundary ==
    (ret.op = "Read" /\ ret.err = "EOF") =>
        RetChunk.position = ChunkLen(RetChunk)

\* C23: a Read of a window all of whose limit-start bytes have been read,
\* with whatever buffer sizes, finds the position at limit-start, returns
\* zero bytes and io.EOF and changes neither the position nor the buffer.
C23_ReadAtEndIsEOF ==
    (ret.op = "Read" /\ ret.pos0 >= ChunkLen(RetChunk)) =>
        /\ ret.pos0 = ChunkLen(RetChunk)
        /\ ret.n = 0 /\ ret.err = "EOF"
        /\ RetChunk.position = ret.pos0
        /\ ret.p = Buffer(ret.len)

\* C24: corruption detection hashes every shard's full content: what
\* CheckHealth and Repair's detection step find does not depend on the read
\* positions the shards have when the call starts; it is what they find on
\* the same shards rewound.
C24_DetectionIgnoresPositions ==
    [][mret'.op \in {"CheckHealth", "Repair"} =>
          mret'.broken = findCorruptShards(Rewound(shards), metadata).brokenShards]_vars

\* Repairs of both kinds: a behaviour is that of a set of shards and its
\* ShardManager, or that of a data file, its parity files and a FileDecoder.
RepInit == MgrInit \/ DecInit

\* Of the manager's operations, the ones a repair needs: Encode, the
\* rewinding and the corruption of shards, and Repair.
RepNext ==
    \/ /\ shards # <<>>
       /\ \/ \E D \in 1..(MaxShards - 1), M \in 1..(MaxShards - 1) : Encode(D, M)
          \/ RewindAll
          \/ \E i \in 1..MaxShards, k \in 1..MaxShardLen : Corrupt(i, k)
          \/ Repair
    \/ shards = <<>> /\ DecNext

SpecRepair == RepInit /\ [][RepNext]_vars

\* C25: Repair gives every shard exactly one role, writer for the shards
\* detected as corrupt and reader for the others, so neither
\* ShardManager.Repair nor the repair of FileDecoder.Read writes to a shard
\* that was not detected as corrupt: such a shard, a chunk of the data file
\* or a parity file, has the bytes after the call that it had before, and a
\* file none of whose shards was detected as corrupt keeps its modification
\* time.
C25_RepairWritesCorruptOnly ==
    [][/\ (shards # <<>> /\ mret'.op = "Repair") =>
            \A i \in DOMAIN shards :
                (i - 1) \notin Range(mret'.broken) =>
                    shards'[i].content = shards[i].content
       /\ (shards = <<>> /\ dret'.op = "Read") =>
            LET D == dmd.DataShards
                cs == SplitIntoPaddedChunks(dmd.Size, D)
                found == Range(dret'.corruptShards)
            IN  /\ \A i \in 1..D :
                      (i - 1) \notin found =>
                          PaddedRange(dfile'.content, cs[i])
                              = PaddedRange(dfile.content, cs[i])
                /\ (found \cap (0..(D - 1)) = {}) =>
                      /\ dfile'.content = dfile.content
                      /\ dfile'.mtime = dfile.mtime
                /\ \A j \in 1..Len(pfiles) :
                      (D + j - 1) \notin found =>
                          /\ pfiles'[j].content = pfiles[j].content
                          /\ pfiles'[j].mtime = pfiles[j].mtime]_vars

\* A Read of a decoder over two data chunks and one parity file that found
\* one chunk corrupt and repaired it.
C25_Witness ==
    /\ shards = <<>>
    /\ dret.op = "Read" /\ dret.repair = "done"
    /\ dmd.DataShards = 2 /\ dmd.ParityShards = 1
    /\ Len(dret.corruptShards) = 1 /\ dret.corruptShards[1] < 2

\* C26: Repair with no corrupt shard is a no-op success: it returns no
\* error, does not invoke Reconstruct and changes no byte of any shard.
C26_RepairOfHealthyIsNoOp ==
    (mret.op = "Repair" /\ mret.corrupt0 = 0) =>
        /\ mret.err = "nil"
        /\ ~mret.reconstruct
        /\ ~mret.changed

\* C27: every FileDecoder.Read compares the data file's modification time
\* with the cached one: the data shards are hashed exactly when the two
\* differ, which they do on the first Read after Open, and are skipped (no
\* data shard is reported) when they are equal; the cached value is then the
\* one the Read observed.
C27_DataRehashedWhenMTimeDiffers ==
    [][dret'.op = "Read" =>
          /\ dret'.checkedData <=> (dfile.mtime # dec.dataMTime)
          /\ dec.dataMTime = ZeroTime => dret'.checkedData
          /\ ~dret'.checkedData =>
                \A k \in DOMAIN dret'.corruptShards :
                    dret'.corruptShards[k] >= dmd.DataShards
          /\ dec'.dataMTime = dfile.mtime]_vars

\* A Read that found the data file's modification time as cached and did
\* not hash the data shards.
C27_Witness ==
    /\ dret.op = "Read" /\ ~dret.checkedData
    /\ dec.dataMTime = dfile.mtime /\ dec.dataMTime # ZeroTime

\* C28: on a FileDecoder.Read only the parity files whose modification time
\* differs from the cached one are hashed: a parity file whose time is
\* unchanged is neither hashed nor reported as corrupt by that Read, even
\* when another parity file's time has changed.
C28_ParityRehashedOneByOne ==
    [][dret'.op = "Read" =>
          \A j \in 1..Len(pfiles) :
              pfiles[j].mtime = dec.parityMTimes[j] =>
                  /\ ~dret'.checkedParity
                  /\ (dmd.DataShards + j - 1) \notin Range(dret'.corruptShards)]_vars

\* The files of the shards (Go indices) in found: 0 for the data file, j for
\* parity file j.
FilesOf(found, D) ==
    {IF c < D THEN 0 ELSE c - D + 1 : c \in found}

\* C29: the repair of a FileDecoder.Read does not refresh the
\* modification-time cache: after the Read the cached times are the ones its
\* check observed, so a file the repair rewrote has a time different from
\* the cached one, and the next Read hashes it again.
C29_RepairKeepsCache ==
    [][dret'.op = "Read" =>
          /\ dret'.repair # "none" =>
                /\ dec'.dataMTime = dfile.mtime
                /\ dec'.parityMTimes = [j \in 1..Len(pfiles) |-> pfiles[j].mtime]
          /\ dret'.repair = "done" =>
                LET rewritten == FilesOf(Range(dret'.corruptShards), dmd.DataShards)
                IN  /\ 0 \in rewritten => dfile'.mtime # dec'.dataMTime
                    /\ \A j \in rewritten \ {0} :
                          pfiles'[j].mtime # dec'.parityMTimes[j]
          /\ (dret.op = "Read" /\ dret.repair = "done") =>
                LET rewritten == FilesOf(Range(dret.corruptShards), dmd.DataShards)
                IN  /\ 0 \in rewritten => dret'.checkedData
                    /\ rewritten \ {0} # {} => dret'.checkedParity]_vars

\* A Read that repaired the second of two data shards, which another writer
\* had corrupted: the data file is newer than the cache says.
C29_Witness ==
    /\ dret.op = "Read" /\ dret.repair = "done"
    /\ dret.corruptShards = <<1>> /\ dmd.DataShards = 2
    /\ dcorrupted = 1
    /\ dfile.mtime = dec.dataMTime + 1
    /\ pfiles[1].mtime = dec.parityMTimes[1]

\* C30: repair converges: the Read that follows, with nothing written to the
\* files in between, a Read that found corruption and repaired it finds no
\* corrupt shard and does not repair again.
C30_RepairConverges ==
    [][(dret.op = "Read" /\ dret.repair = "done" /\ dret'.op = "Read") =>
          /\ dret'.corruptShards = <<>>
          /\ dret'.repair = "none"]_vars

\* C31: round trip for any size, also one that the number of data shards
\* does not divide: the Reads of an opened decoder deliver bytes of the
\* original Metadata.Size bytes only, each at its place and none of them
\* padding, also after the last, padded data shard was corrupted and
\* repaired, and the data file is never longer than Metadata.Size.
C31_RoundTripKeepsSize ==
    dret.op = "Read" =>
        /\ Len(dfile.content) = dmd.Size
        /\ dret.pos0 + dret.n <= dmd.Size
        /\ (dret.repair = "done" /\ dret.err = "nil") =>
              SubSeq(dret.p, 1, dret.n)
                  = SubSeq(Original, dret.pos0 + 1, dret.pos0 + dret.n)

\* ---- writing a byte string through the chunks of a partition
\* A byte string of size bytes, none of them a byte of FileOf or a zero.
InputOf(size) == [k \in 1..size |-> WriteByte + k]

\* The slice of the byte string str that falls into the range of the chunk c.
SliceOf(str, c) ==
    IF c.offset >= Len(str) THEN <<>>
    ELSE SubSeq(str, c.offset + 1, Min(c.limit, Len(str)))

\* SplitIntoPaddedChunks(file, size, numChunks) for writing a byte string of
\* size bytes: over a new, empty file (fresh), or over the file as it is when
\* it has size bytes.
SplitWriters(size, numChunks, fresh) ==
    /\ chunks = <<>>
    /\ fresh \/ size = Len(data)
    /\ data' = IF fresh THEN <<>> ELSE data
    /\ chunks' = SplitIntoPaddedChunks(size, numChunks)
    /\ inputs' = [i \in 1..numChunks |-> SliceOf(InputOf(size), chunks'[i])]
    /\ ret' = [NoRet EXCEPT !.op = "Split", !.len = numChunks, !.n = size]
    /\ got' = [i \in 1..numChunks |-> <<>>]
    /\ eof' = [i \in 1..numChunks |-> FALSE]
    /\ sequential' = [i \in 1..numChunks |-> FALSE]
    /\ UNCHANGED <<writes, mgrVars, decVars>>

\* chunks[i].Write(p) with p the next len bytes of the chunk's input
WriteInput(i, len) ==
    /\ i \in DOMAIN chunks
    /\ chunks[i].position + len <= Len(inputs[i])
    /\ LET p == SubSeq(inputs[i], chunks[i].position + 1, chunks[i].position + len)
           r == PaddedFileChunk_Write(data, chunks[i], p)
       IN  /\ data' = r.data
           /\ chunks' = [chunks EXCEPT ![i].position = r.position]
           /\ ret' = [op |-> "Write", chunk |-> i, len |-> len,
                      pos0 |-> chunks[i].position, n |-> r.n, err |-> r.err,
                      p |-> p]
    /\ UNCHANGED <<got, eof, sequential, writes, inputs, mgrVars, decVars>>

WritersNext ==
    \/ \E size \in 1..MaxSize, numChunks \in 1..MaxChunks, fresh \in BOOLEAN :
          SplitWriters(size, numChunks, fresh)
    \/ \E i \in 1..MaxChunks, len \in 1..MaxBuf : WriteInput(i, len)

SpecWriters == ChunkInit /\ [][WritersNext]_vars

\* The inputs of the chunks one after the other, chunk n last.
RECURSIVE JoinInputs(_, _)
JoinInputs(in, n) == IF n = 0 THEN <<>> ELSE JoinInputs(in, n - 1) \o in[n]

\* C32: a Write(buffer) with len(buffer) <= limit-start-position succeeds,
\* stores the buffer at the absolute offset start+position of the file and
\* advances the position by len(buffer); and once every chunk of a
\* partition has been written its slice of a byte string of S bytes, the file
\* holds exactly that byte string.
C32_WritesStoreTheString ==
    /\ ret.op = "Write" =>
          /\ ret.len <= ChunkLen(RetChunk) - ret.pos0
          /\ ret.err = "nil" /\ ret.n = ret.len
          /\ RetChunk.position = ret.pos0 + ret.len
          /\ Len(data) >= RetChunk.offset + ret.pos0 + ret.len
          /\ \A k \in 1..ret.len :
                data[RetChunk.offset + ret.pos0 + k] = ret.p[k]
    /\ (chunks # <<>>
        /\ \A i \in DOMAIN chunks : chunks[i].position = Len(inputs[i])) =>
          /\ data = JoinInputs(inputs, Len(inputs))
          /\ data = InputOf(Len(data))

\* Three chunks written with the 4 bytes of a string, the second chunk
\* before the first; the third chunk is all padding and has no input.
C32_Witness ==
    /\ Len(chunks) = 3 /\ inputs[3] = <<>> /\ Len(inputs[2]) = 2
    /\ \A i \in DOMAIN chunks : chunks[i].position = Len(inputs[i])
    /\ ret.op = "Write" /\ ret.chunk = 1 /\ ret.len = 2
    /\ data = InputOf(4)

\* The chunks of a partition of a file of S bytes that hold no byte of the
\* file: padding from their first byte to their last.
PaddingOnly(cs, S) == {i \in DOMAIN cs : cs[i].offset >= S}

\* C33: for every S > 0 and N > 0 the padding the partition adds,
\* N*ceil(S/N) - S, is at least 0 and at most N-1 bytes; the chunks that are
\* padding only are the last ones, and the first chunk is never one of them.
C33_PaddingBounds ==
    ret.op = "Split" =>
        LET S == ret.n
            N == ret.len
            padding == chunks[N].limit - S
        IN  /\ padding = SumLen(chunks, N) - S
            /\ padding = N * CeilDiv(S, N) - S
            /\ 0 <= padding /\ padding <= N - 1
            /\ 1 \notin PaddingOnly(chunks, S)
            /\ \A i \in PaddingOnly(chunks, S) :
                  \A j \in i..N : j \in PaddingOnly(chunks, S)

\* A 1 byte file split into 3 chunks: 2 bytes of padding, which are the
\* whole of the second chunk and the whole of the third.
C33_Witness ==
    /\ ret.op = "Split" /\ ret.n = 1 /\ ret.len = 3
    /\ chunks[3].limit - ret.n = 2
    /\ PaddingOnly(chunks, ret.n) = {2, 3}
====
